---------------------------- MODULE Spec2Model ----------------------------
(***************************************************************************)
(* A model of the hierarchical extraction engine of xtractor:              *)
(* app/parser.py, class PDFExtractor.  A Python str is a sequence of       *)
(* one-character strings, a list is a sequence, a set is a set, a dict is  *)
(* a record.  self.current_state / self.current_lga are references into    *)
(* extracted_data["states"] / ["lgas"]: they are modelled as the position  *)
(* of the referenced dict in its list, 0 standing for None.                *)
(***************************************************************************)
EXTENDS Integers, Sequences, FiniteSets, TLC

(***************************************************************************)
(* Characters and the str methods the parser uses (ASCII).                 *)
(***************************************************************************)
UpperLetters == <<"A","B","C","D","E","F","G","H","I","J","K","L","M",
                  "N","O","P","Q","R","S","T","U","V","W","X","Y","Z">>
LowerLetters == <<"a","b","c","d","e","f","g","h","i","j","k","l","m",
                  "n","o","p","q","r","s","t","u","v","w","x","y","z">>
DigitChars == {"0","1","2","3","4","5","6","7","8","9"}
\* the ASCII characters str.isspace() takes for white space: blank, tab, line
\* feed, carriage return, form feed, and the control characters 0B (vertical
\* tab), 1C, 1D, 1E, 1F (file, group, record and unit separator)
SpaceChars == {" ", "\t", "\n", "\r", "\f", "", "", "", "", ""}
NL == "\n"

Range(s) == {s[i] : i \in DOMAIN s}

c_isupper(c) == c \in Range(UpperLetters)
c_islower(c) == c \in Range(LowerLetters)
c_isalpha(c) == c_isupper(c) \/ c_islower(c)
c_isdigit(c) == c \in DigitChars
c_isspace(c) == c \in SpaceChars
c_isalnum(c) == c_isalpha(c) \/ c_isdigit(c)

c_upper(c) ==
    IF c_islower(c)
    THEN UpperLetters[CHOOSE i \in DOMAIN LowerLetters : LowerLetters[i] = c]
    ELSE c

\* str.upper()
upper(s) == [i \in DOMAIN s |-> c_upper(s[i])]

\* str.isdigit(), str.isalnum(): false for the empty string
isdigit(s) == Len(s) > 0 /\ \A i \in DOMAIN s : c_isdigit(s[i])
isalnum(s) == Len(s) > 0 /\ \A i \in DOMAIN s : c_isalnum(s[i])

\* sum(1 for c in s if c.isupper()), ... if c.isdigit(), ... if c.isalpha() or c.isspace()
count_upper(s) == Cardinality({i \in DOMAIN s : c_isupper(s[i])})
count_digit(s) == Cardinality({i \in DOMAIN s : c_isdigit(s[i])})
count_letter(s) == Cardinality({i \in DOMAIN s : c_isalpha(s[i]) \/ c_isspace(s[i])})

\* str.strip()
strip(s) ==
    LET keep == {i \in DOMAIN s : ~c_isspace(s[i])}
    IN  IF keep = {} THEN <<>>
        ELSE LET lo == CHOOSE i \in keep : \A j \in keep : i <= j
                 hi == CHOOSE i \in keep : \A j \in keep : j <= i
             IN  SubSeq(s, lo, hi)

\* kw in s
Contains(s, kw) ==
    \E i \in 1..(Len(s) - Len(kw) + 1) : SubSeq(s, i, i + Len(kw) - 1) = kw

\* s.replace(old, ''): every non-overlapping occurrence, left to right
RECURSIVE remove(_, _)
remove(s, old) ==
    IF Len(s) < Len(old) \/ Len(old) = 0 THEN s
    ELSE IF SubSeq(s, 1, Len(old)) = old
         THEN remove(SubSeq(s, Len(old) + 1, Len(s)), old)
         ELSE <<s[1]>> \o remove(Tail(s), old)

\* s.split(sep) for a one-character sep: always at least one piece
RECURSIVE split_on(_, _)
split_on(s, sep) ==
    LET hits == {i \in DOMAIN s : s[i] = sep}
    IN  IF hits = {} THEN <<s>>
        ELSE LET k == CHOOSE i \in hits : \A j \in hits : i <= j
             IN  <<SubSeq(s, 1, k - 1)>> \o split_on(SubSeq(s, k + 1, Len(s)), sep)

\* s.split(): runs of non-whitespace characters
RECURSIVE split_ws(_)
split_ws(s) ==
    LET t == strip(s)
        sp == {i \in DOMAIN t : c_isspace(t[i])}
    IN  IF t = <<>> THEN <<>>
        ELSE IF sp = {} THEN <<t>>
        ELSE LET k == CHOOSE i \in sp : \A j \in sp : i <= j
             IN  <<SubSeq(t, 1, k - 1)>> \o split_ws(SubSeq(t, k + 1, Len(t)))

\* ' '.join(row)
RECURSIVE join_sp(_)
join_sp(row) ==
    IF row = <<>> THEN <<>>
    ELSE IF Len(row) = 1 THEN row[1]
    ELSE row[1] \o <<" ">> \o join_sp(Tail(row))

\* NIGERIAN_STATES: the module's reference ordering of state names (no code reads it)
NIGERIAN_STATES ==
    << <<"A","B","I","A">>,
       <<"A","D","A","M","A","W","A">>,
       <<"A","K","W","A"," ","I","B","O","M">>,
       <<"A","N","A","M","B","R","A">>,
       <<"B","A","U","C","H","I">>,
       <<"B","A","Y","E","L","S","A">>,
       <<"B","E","N","U","E">>,
       <<"B","O","R","N","O">>,
       <<"C","R","O","S","S"," ","R","I","V","E","R">>,
       <<"D","E","L","T","A">>,
       <<"E","B","O","N","Y","I">>,
       <<"E","D","O">>,
       <<"E","K","I","T","I">>,
       <<"E","N","U","G","U">>,
       <<"F","C","T">>,
       <<"G","O","M","B","E">>,
       <<"I","M","O">>,
       <<"J","I","G","A","W","A">>,
       <<"K","A","D","U","N","A">>,
       <<"K","A","N","O">>,
       <<"K","A","T","S","I","N","A">>,
       <<"K","E","B","B","I">>,
       <<"K","O","G","I">>,
       <<"K","W","A","R","A">>,
       <<"L","A","G","O","S">>,
       <<"L","A","R","A","B","A">>,
       <<"N","A","S","A","R","A","W","A">>,
       <<"N","I","G","E","R">>,
       <<"O","G","U","N">>,
       <<"O","N","D","O">>,
       <<"O","S","U","N">>,
       <<"O","Y","O">>,
       <<"P","L","A","T","E","A","U">>,
       <<"R","I","V","E","R","S">>,
       <<"S","O","K","O","T","O">>,
       <<"T","A","R","A","B","A">>,
       <<"Y","O","B","E">>,
       <<"Z","A","M","F","A","R","A">> >>

(***************************************************************************)
(* The extractor object.  S is the value of self: the three lists of       *)
(* extracted_data, the two cursors, the three dedup sets, and raised, set  *)
(* when the call in progress has thrown (None is not subscriptable).       *)
(***************************************************************************)
None == <<"None">>      \* a table cell that is None (no one-character string)

\* the test inverted: "if self.current_state:" for "if not self.current_state:"
Truthy(ref) == ref # 0

\* not self.current_state, not self.current_lga: None is falsy, a dict with keys is not
Falsy(ref) == ref = 0

\* self.current_state['name'] on None raises TypeError
TypeError(S) == [S EXCEPT !.raised = TRUE]

\* a code made of the first two characters of the name
generate_code_prefix(name) ==
    LET t == strip(name)
    IN  IF Len(t) >= 2 THEN <<c_upper(t[1]), c_upper(t[2])>> ELSE <<"X", "X">>

\* _generate_code
generate_code(name) ==
    LET words == split_ws(name)
        code == [i \in DOMAIN words |-> c_upper(words[i][1])]
    IN  IF code # <<>> THEN code ELSE <<"X", "X">>

\* code or self._generate_code(name)
code_or_generated(name, code) == IF code # <<>> THEN code ELSE generate_code(name)

\* _add_state without "self.current_state = state_data"
add_state_keeps_current(S, name, code) ==
    LET key == upper(name)
    IN  IF key \in S.seen_states THEN S
        ELSE [S EXCEPT
                !.states = Append(@, [name |-> name,
                                      code |-> code_or_generated(name, code)]),
                !.current_lga = 0,
                !.seen_states = @ \cup {key}]

\* _add_state without "self.current_lga = None"
add_state_keeps_lga(S, name, code) ==
    LET key == upper(name)
    IN  IF key \in S.seen_states THEN S
        ELSE [S EXCEPT
                !.states = Append(@, [name |-> name,
                                      code |-> code_or_generated(name, code)]),
                !.current_state = Len(S.states) + 1,
                !.seen_states = @ \cup {key}]

\* _add_state
add_state(S, name, code) ==
    LET key == upper(name)
    IN  IF key \in S.seen_states THEN S
        ELSE [S EXCEPT
                !.states = Append(@, [name |-> name,
                                      code |-> code_or_generated(name, code)]),
                !.current_state = Len(S.states) + 1,
                !.current_lga = 0,
                !.seen_states = @ \cup {key}]

\* an LGA key that keeps the letter case of the name
lga_key_raw(state, name) == upper(state) \o <<"_">> \o name

\* the dedup key of an LGA: f"{state.upper()}_{name.upper()}"
lga_key(state, name) == upper(state) \o <<"_">> \o upper(name)

\* the dedup key of a ward: f"{state.upper()}_{lga.upper()}_{name.upper()}"
ward_key(state, lga, name) ==
    upper(state) \o <<"_">> \o upper(lga) \o <<"_">> \o upper(name)

\* int(code) of a string of decimal digits
Digits == <<"0","1","2","3","4","5","6","7","8","9">>
DigitValue(c) == (CHOOSE i \in DOMAIN Digits : Digits[i] = c) - 1

RECURSIVE int_of(_)
int_of(s) ==
    IF s = <<>> THEN 0
    ELSE 10 * int_of(SubSeq(s, 1, Len(s) - 1)) + DigitValue(s[Len(s)])

\* _add_lga that overwrites the existing LGA of a seen key with the new row
add_lga_upsert(S, name, code) ==
    IF Falsy(S.current_state) THEN S
    ELSE
    LET state == S.states[S.current_state].name
        key == lga_key(state, name)
        found == {i \in DOMAIN S.lgas :
                    upper(S.lgas[i].name) = upper(name) /\ S.lgas[i].state = state}
        entity == [name |-> name, code |-> code_or_generated(name, code),
                   state |-> state]
    IN  IF key \in S.seen_lgas
        THEN IF found # {}
             THEN LET i == CHOOSE i \in found : \A j \in found : i <= j
                  IN  [S EXCEPT !.lgas[i] = entity, !.current_lga = i]
             ELSE S
        ELSE [S EXCEPT
                !.lgas = Append(@, entity),
                !.current_lga = Len(S.lgas) + 1,
                !.seen_lgas = @ \cup {key}]

\* _add_lga without the "Update current LGA" loop
add_lga_no_reselect(S, name, code) ==
    IF Falsy(S.current_state) THEN S
    ELSE IF S.current_state = 0 THEN TypeError(S)
    ELSE
    LET state == S.states[S.current_state].name
        key == lga_key(state, name)
    IN  IF key \in S.seen_lgas THEN S
        ELSE [S EXCEPT
                !.lgas = Append(@, [name |-> name,
                                    code |-> code_or_generated(name, code),
                                    state |-> state]),
                !.current_lga = Len(S.lgas) + 1,
                !.seen_lgas = @ \cup {key}]

\* _add_lga whose "Update current LGA" loop compares the name only
add_lga_reselect_by_name(S, name, code) ==
    IF Falsy(S.current_state) THEN S
    ELSE IF S.current_state = 0 THEN TypeError(S)
    ELSE
    LET state == S.states[S.current_state].name
        key == lga_key(state, name)
        found == {i \in DOMAIN S.lgas : upper(S.lgas[i].name) = upper(name)}
    IN  IF key \in S.seen_lgas
        THEN IF found # {}
             THEN [S EXCEPT !.current_lga =
                              CHOOSE i \in found : \A j \in found : i <= j]
             ELSE S
        ELSE [S EXCEPT
                !.lgas = Append(@, [name |-> name,
                                    code |-> code_or_generated(name, code),
                                    state |-> state]),
                !.current_lga = Len(S.lgas) + 1,
                !.seen_lgas = @ \cup {key}]

\* _add_lga
add_lga(S, name, code) ==
    IF Falsy(S.current_state) THEN S
    ELSE IF S.current_state = 0 THEN TypeError(S)
    ELSE
    LET state == S.states[S.current_state].name
        key == lga_key(state, name)
        found == {i \in DOMAIN S.lgas :
                    upper(S.lgas[i].name) = upper(name) /\ S.lgas[i].state = state}
    IN  IF key \in S.seen_lgas
        THEN IF found # {}
             THEN [S EXCEPT !.current_lga =
                              CHOOSE i \in found : \A j \in found : i <= j]
             ELSE S
        ELSE [S EXCEPT
                !.lgas = Append(@, [name |-> name,
                                    code |-> code_or_generated(name, code),
                                    state |-> state]),
                !.current_lga = Len(S.lgas) + 1,
                !.seen_lgas = @ \cup {key}]

\* _add_ward falling back on the last LGA of the list when none is current
add_ward_last_lga(S, name, code) ==
    IF Falsy(S.current_state) \/ S.lgas = <<>> THEN S
    ELSE
    LET state == S.states[S.current_state].name
        lga == S.lgas[IF S.current_lga = 0 THEN Len(S.lgas) ELSE S.current_lga].name
        key == ward_key(state, lga, name)
    IN  IF key \in S.seen_wards THEN S
        ELSE [S EXCEPT
                !.wards = Append(@, [name |-> name,
                                     code |-> code_or_generated(name, code),
                                     lga |-> lga,
                                     state |-> state]),
                !.seen_wards = @ \cup {key}]

\* _add_ward without "self.seen_wards.add(key)"
add_ward_unkeyed(S, name, code) ==
    IF Falsy(S.current_lga) \/ Falsy(S.current_state) THEN S
    ELSE IF S.current_lga = 0 \/ S.current_state = 0 THEN TypeError(S)
    ELSE
    LET state == S.states[S.current_state].name
        lga == S.lgas[S.current_lga].name
        key == ward_key(state, lga, name)
    IN  IF key \in S.seen_wards THEN S
        ELSE [S EXCEPT
                !.wards = Append(@, [name |-> name,
                                     code |-> code_or_generated(name, code),
                                     lga |-> lga,
                                     state |-> state])]

\* _add_ward
add_ward(S, name, code) ==
    IF Falsy(S.current_lga) \/ Falsy(S.current_state) THEN S
    ELSE IF S.current_lga = 0 \/ S.current_state = 0 THEN TypeError(S)
    ELSE
    LET state == S.states[S.current_state].name
        lga == S.lgas[S.current_lga].name
        key == ward_key(state, lga, name)
    IN  IF key \in S.seen_wards THEN S
        ELSE [S EXCEPT
                !.wards = Append(@, [name |-> name,
                                     code |-> code_or_generated(name, code),
                                     lga |-> lga,
                                     state |-> state]),
                !.seen_wards = @ \cup {key}]

\* _looks_like_code without the count of digits
looks_like_code_no_digit(text) ==
    IF text = <<>> THEN FALSE
    ELSE LET t == strip(text)
         IN  IF isdigit(t) THEN Len(t) <= 5
             ELSE isalnum(t) /\ Len(t) <= 5

\* _looks_like_code
looks_like_code(text) ==
    IF text = <<>> THEN FALSE
    ELSE LET t == strip(text)
         IN  IF isdigit(t) THEN Len(t) <= 5
             ELSE IF isalnum(t) /\ Len(t) <= 5 THEN count_digit(t) > 0
             ELSE FALSE

\* _is_new_lga (called with a current LGA that is not None)
is_new_lga(S, name, code) ==
    IF Falsy(S.current_lga) THEN TRUE
    ELSE LET cur == S.lgas[S.current_lga]
         IN  upper(cur.name) # upper(name) \/ cur.code # code

\* after a raise the rest of the call is skipped
Then(S, T) == IF S.raised THEN S ELSE T

\* _detect_lga_ward_data
detect_lga_ward_data(S, cells0) ==
    IF Falsy(S.current_state) THEN S
    ELSE
    LET NonBlank(c) == strip(c) # <<>>
        kept == SelectSeq(cells0, NonBlank)
        cells == [i \in DOMAIN kept |-> strip(kept[i])]
        code_indices == {i \in DOMAIN cells : looks_like_code(cells[i])}
        first_code == CHOOSE i \in code_indices : \A j \in code_indices : i <= j
    IN  IF Len(cells) < 2 THEN S
        ELSE IF Len(cells) = 2
        THEN IF looks_like_code(cells[2])
             THEN IF Falsy(S.current_lga) THEN add_lga(S, cells[1], cells[2])
                  ELSE IF S.current_lga = 0 THEN TypeError(S)
                  ELSE IF is_new_lga(S, cells[1], cells[2])
                       THEN add_lga(S, cells[1], cells[2])
                       ELSE add_ward(S, cells[1], cells[2])
             ELSE S
        ELSE IF Cardinality(code_indices) >= 2
        THEN LET lga_code == IF looks_like_code(cells[2]) THEN cells[2] ELSE <<>>
                 S1 == IF lga_code # <<>> THEN add_lga(S, cells[1], lga_code) ELSE S
             IN  IF Len(cells) >= 4
                 THEN Then(S1, add_ward(S1, cells[3], cells[4]))
                 ELSE S1
        ELSE IF Cardinality(code_indices) = 1
        THEN IF first_code <= 2
             THEN add_lga(S, cells[1], cells[first_code])
             ELSE add_ward(S, cells[1], cells[first_code])
        ELSE S

\* _parse_table_row
parse_table_row(S, row) ==
    LET NonEmpty(c) == c # <<>>
        non_empty == SelectSeq(row, NonEmpty)
        n == Len(non_empty)
        last_two == SubSeq(non_empty, IF n > 2 THEN n - 1 ELSE 1, n)
        has_code == \E i \in DOMAIN last_two :
                       \/ isdigit(last_two[i])
                       \/ isalnum(last_two[i]) /\ Len(last_two[i]) <= 5
    IN  IF n < 2 THEN S
        ELSE IF ~has_code THEN S
        ELSE detect_lga_ward_data(S, non_empty)

\* _is_table_header that takes no row for a header
is_table_header_never(row) == FALSE

\* _is_table_header
header_keywords ==
    { <<"L","G","A"," ","N","A","M","E">>, <<"W","A","R","D"," ","N","A","M","E">>,
      <<"W","A","R","D"," ","C","O","D","E">>, <<"L","G","A"," ","C","O","D","E">>,
      <<"C","O","D","E">> }

is_table_header(row) ==
    LET row_text == upper(join_sp(row))
    IN  Cardinality({kw \in header_keywords : Contains(row_text, kw)}) >= 2

\* the loop body of _extract_table_data with cell.strip() on every cell: a None
\* cell raises
extract_table_row_strip_all(S, row) ==
    IF row = <<>> \/ \A i \in DOMAIN row : row[i] = None \/ row[i] = <<>> THEN S
    ELSE IF \E i \in DOMAIN row : row[i] = None THEN TypeError(S)
    ELSE LET clean_row == [i \in DOMAIN row |-> strip(row[i])]
         IN  IF is_table_header(clean_row) THEN S
             ELSE parse_table_row(S, clean_row)

\* one iteration of the loop of _extract_table_data
extract_table_row(S, row) ==
    IF row = <<>> \/ \A i \in DOMAIN row : row[i] = None \/ row[i] = <<>> THEN S
    ELSE LET clean_row == [i \in DOMAIN row |->
                             IF row[i] # None /\ row[i] # <<>> THEN strip(row[i])
                             ELSE <<>>]
         IN  IF is_table_header(clean_row) THEN S
             ELSE parse_table_row(S, clean_row)

\* _extract_table_data
RECURSIVE extract_table_data(_, _)
extract_table_data(S, table) ==
    IF table = <<>> \/ S.raised THEN S
    ELSE extract_table_data(extract_table_row(S, Head(table)), Tail(table))

\* _is_state_header
is_state_header(line) ==
    IF Len(line) > 40 \/ Len(line) < 3 THEN FALSE
    ELSE LET upper_count == count_upper(line)
             letter_count == count_letter(line)
         IN  10 * upper_count > 8 * Len(line) /\ 10 * letter_count > 7 * Len(line)

\* _process_state_line
process_state_line(S, line) ==
    LET state_name == strip(remove(remove(line, <<"S","T","A","T","E",":">>),
                                   <<"S","t","a","t","e",":">>))
    IN  add_state(S, state_name, <<>>)

\* a text line that is no banner read as a table row of its words
extract_text_line_as_row(S, line0) ==
    LET line == strip(line0)
    IN  IF line = <<>> \/ Len(line) < 2 THEN S
        ELSE IF is_state_header(line) THEN process_state_line(S, line)
        ELSE parse_table_row(S, split_ws(line))

\* one iteration of the loop of _extract_text_data
extract_text_line(S, line0) ==
    LET line == strip(line0)
    IN  IF line = <<>> \/ Len(line) < 2 THEN S
        ELSE IF is_state_header(line) THEN process_state_line(S, line)
        ELSE S

\* _extract_text_data
RECURSIVE extract_lines(_, _)
extract_lines(S, lines) ==
    IF lines = <<>> \/ S.raised THEN S
    ELSE extract_lines(extract_text_line(S, Head(lines)), Tail(lines))

extract_text_data(S, text) == extract_lines(S, split_on(text, NL))

\* _process_page: the tables of the page in order, then its text; a page is
\* [tables, text], text = <<>> when extract_text gives None or ''
RECURSIVE extract_tables(_, _)
extract_tables(S, tables) ==
    IF tables = <<>> \/ S.raised THEN S
    ELSE extract_tables(extract_table_data(S, Head(tables)), Tail(tables))

\* _process_page that reads the text of the page before its tables
process_page_text_first(S, page) ==
    LET S1 == IF page.text # <<>> THEN extract_text_data(S, page.text) ELSE S
    IN  Then(S1, extract_tables(S1, page.tables))

\* _process_page
process_page(S, page) ==
    LET S1 == extract_tables(S, page.tables)
    IN  IF page.text # <<>> THEN Then(S1, extract_text_data(S1, page.text))
        ELSE S1

\* get_statistics (without the clock reading)
get_statistics(S) ==
    [ total_states |-> Len(S.states),
      total_lgas |-> Len(S.lgas),
      total_wards |-> Len(S.wards) ]

(***************************************************************************)
(* models.py: the database.  The states table is filled once by init_db    *)
(* and never written again; D is the data the loop of save_extraction_data *)
(* writes: the rows of lgas and wards (a row's id is its place in the      *)
(* table), the two counters, and raised, set when a value has no strip     *)
(* (AttributeError on None).                                               *)
(***************************************************************************)
\* NIGERIAN_STATES of models.py: the rows init_db puts into the states table
models_NIGERIAN_STATES ==
    << <<"A","B","I","A">>,
       <<"A","D","A","M","A","W","A">>,
       <<"A","K","W","A"," ","I","B","O","M">>,
       <<"A","N","A","M","B","R","A">>,
       <<"B","A","U","C","H","I">>,
       <<"B","A","Y","E","L","S","A">>,
       <<"B","E","N","U","E">>,
       <<"B","O","R","N","O">>,
       <<"C","R","O","S","S"," ","R","I","V","E","R">>,
       <<"D","E","L","T","A">>,
       <<"E","B","O","N","Y","I">>,
       <<"E","D","O">>,
       <<"E","K","I","T","I">>,
       <<"E","N","U","G","U">>,
       <<"G","O","M","B","E">>,
       <<"I","M","O">>,
       <<"J","I","G","A","W","A">>,
       <<"K","A","D","U","N","A">>,
       <<"K","A","N","O">>,
       <<"K","A","T","S","I","N","A">>,
       <<"K","E","B","B","I">>,
       <<"K","O","G","I">>,
       <<"K","W","A","R","A">>,
       <<"L","A","G","O","S">>,
       <<"N","A","S","A","R","A","W","A">>,
       <<"N","I","G","E","R">>,
       <<"O","G","U","N">>,
       <<"O","N","D","O">>,
       <<"O","S","U","N">>,
       <<"O","Y","O">>,
       <<"P","L","A","T","E","A","U">>,
       <<"R","I","V","E","R","S">>,
       <<"S","O","K","O","T","O">>,
       <<"T","A","R","A","B","A">>,
       <<"Y","O","B","E">>,
       <<"Z","A","M","F","A","R","A">>,
       <<"F","C","T">> >>

\* dict.get(key, default)
get(d, key, default) == IF key \in DOMAIN d THEN d[key] ELSE default

\* SELECT id FROM states WHERE UPPER(name) = ?  (0: no row)
select_state_id(state_name) ==
    LET ids == {i \in DOMAIN models_NIGERIAN_STATES :
                  upper(models_NIGERIAN_STATES[i]) = state_name}
    IN  IF ids = {} THEN 0 ELSE CHOOSE i \in ids : TRUE

\* SELECT id FROM lgas WHERE code = ? AND state_id = ?  (0: no row)
select_lga_id(table, code, state_id) ==
    LET rows == {i \in DOMAIN table :
                   table[i].code = code /\ table[i].state_id = state_id}
    IN  IF rows = {} THEN 0 ELSE table[CHOOSE i \in rows : TRUE].id

\* INSERT OR IGNORE INTO lgas: the id is AUTOINCREMENT, and the statement takes
\* the next id also when UNIQUE(code, state_id) makes it insert nothing.  D is
\* the database; lgas_seq is the last id taken.
insert_or_ignore_lga(D, name, code, state_id) ==
    IF select_lga_id(D.lgas, code, state_id) # 0
    THEN [D EXCEPT !.lgas_seq = @ + 1]
    ELSE [D EXCEPT !.lgas_seq = @ + 1,
                   !.lgas = Append(@, [id |-> D.lgas_seq + 1, name |-> name,
                                       code |-> code, state_id |-> state_id])]

\* INSERT OR IGNORE INTO wards: UNIQUE(code, lga_id)
insert_or_ignore_ward(table, name, code, lga_id) ==
    IF \E i \in DOMAIN table : table[i].code = code /\ table[i].lga_id = lga_id
    THEN table
    ELSE Append(table, [name |-> name, code |-> code, lga_id |-> lga_id])

(***************************************************************************)
(* The loop of save_extraction_data, one cursor.execute at a time (the     *)
(* connection is in autocommit mode: every statement is in the database    *)
(* once it has run).  A position names the statement the loop runs next:  *)
(* at is "select_state", "insert_lga", "select_lga" or "insert_ward", and  *)
(* s, l, w are the places of the state, the LGA and the ward it is about;  *)
(* at = "end" when the loop is over, at = "raise" when the code on the way *)
(* to the next statement calls .strip() on None (AttributeError).          *)
(***************************************************************************)
NoPosition == [at |-> "", s |-> 0, l |-> 0, w |-> 0]

RECURSIVE seek_state(_, _)
RECURSIVE seek_lga(_, _, _)
RECURSIVE seek_ward(_, _, _, _)

\* from "for state_data in ..." at the state s to the next statement
seek_state(state_list, s) ==
    IF s > Len(state_list) THEN [NoPosition EXCEPT !.at = "end"]
    ELSE LET name0 == get(state_list[s], "name", <<>>)
         IN  IF name0 = None THEN [NoPosition EXCEPT !.at = "raise", !.s = s]
             ELSE IF upper(strip(name0)) = <<>> THEN seek_state(state_list, s + 1)
             ELSE [NoPosition EXCEPT !.at = "select_state", !.s = s]

\* from "for lga_data in ..." at the LGA l of the state s to the next statement
seek_lga(state_list, s, l) ==
    LET lga_list == get(state_list[s], "lgas", <<>>)
    IN  IF l > Len(lga_list) THEN seek_state(state_list, s + 1)
        ELSE LET name0 == get(lga_list[l], "name", <<>>)
                 code0 == get(lga_list[l], "code", <<>>)
             IN  IF name0 = None \/ code0 = None
                 THEN [NoPosition EXCEPT !.at = "raise", !.s = s, !.l = l]
                 ELSE IF strip(name0) = <<>> \/ strip(code0) = <<>>
                 THEN seek_lga(state_list, s, l + 1)
                 ELSE [NoPosition EXCEPT !.at = "insert_lga", !.s = s, !.l = l]

\* from "for ward_data in ..." at the ward w of the LGA l to the next statement
seek_ward(state_list, s, l, w) ==
    LET ward_list == get(get(state_list[s], "lgas", <<>>)[l], "wards", <<>>)
    IN  IF w > Len(ward_list) THEN seek_lga(state_list, s, l + 1)
        ELSE LET name0 == get(ward_list[w], "name", <<>>)
                 code0 == get(ward_list[w], "code", <<>>)
             IN  IF name0 = None \/ code0 = None
                 THEN [NoPosition EXCEPT !.at = "raise", !.s = s, !.l = l, !.w = w]
                 ELSE IF strip(name0) = <<>> \/ strip(code0) = <<>>
                 THEN seek_ward(state_list, s, l, w + 1)
                 ELSE [NoPosition EXCEPT !.at = "insert_ward",
                                         !.s = s, !.l = l, !.w = w]

\* the statement at the position C.pos runs, and the loop goes on to its next
\* statement.  D is the database, C the locals of the call; the result is the
\* two after the step.
save_statement(D, C, state_list) ==
    LET pos == C.pos
        lga_data == get(state_list[pos.s], "lgas", <<>>)[pos.l]
        ward_data == get(lga_data, "wards", <<>>)[pos.w]
    IN  CASE pos.at = "select_state" ->
               LET state_id == select_state_id(upper(strip(state_list[pos.s].name)))
               IN  IF state_id = 0
                   THEN [db |-> D,
                         call |-> [C EXCEPT !.pos = seek_state(state_list, pos.s + 1)]]
                   ELSE [db |-> D,
                         call |-> [C EXCEPT !.state_id = state_id,
                                            !.pos = seek_lga(state_list, pos.s, 1)]]
          [] pos.at = "insert_lga" ->
               [db |-> insert_or_ignore_lga(D, strip(lga_data.name),
                                            strip(lga_data.code), C.state_id),
                call |-> [C EXCEPT !.pos.at = "select_lga"]]
          [] pos.at = "select_lga" ->
               LET lga_id == select_lga_id(D.lgas, strip(lga_data.code), C.state_id)
               IN  IF lga_id = 0
                   THEN [db |-> D,
                         call |-> [C EXCEPT
                                     !.pos = seek_lga(state_list, pos.s, pos.l + 1)]]
                   ELSE [db |-> D,
                         call |-> [C EXCEPT
                                     !.lga_id = lga_id,
                                     !.lgas_created = @ + 1,
                                     !.pos = seek_ward(state_list, pos.s, pos.l, 1)]]
          [] pos.at = "insert_ward" ->
               [db |-> [D EXCEPT !.wards = insert_or_ignore_ward(
                                               @, strip(ward_data.name),
                                               strip(ward_data.code), C.lga_id)],
                call |-> [C EXCEPT
                            !.wards_created = @ + 1,
                            !.pos = seek_ward(state_list, pos.s, pos.l, pos.w + 1)]]

\* where the call stands with the loop at this position
phase_at(pos) ==
    IF pos.at = "raise" THEN "handling"
    ELSE IF pos.at = "end" THEN "data_written"
    ELSE "log_written"

(***************************************************************************)
(* The run of extract_all.  phase is its position: "open" before the first *)
(* page, "tables" inside _process_page before the page's text, "page_done" *)
(* after it, "returned" after the return.  history is the sequence of      *)
(* table rows and text lines fed so far (a record of the inputs, read by   *)
(* the properties only).  The runs below draw their pages one by one as    *)
(* they go and leave pages and page_num alone; the run over a document     *)
(* fixed at the start (ProcessPage) reads pdf.pages from pages and counts  *)
(* the pages done in page_num.  db is the database (the lgas, wards and    *)
(* extraction_logs tables, lgas_seq the last id the lgas table gave out;   *)
(* the ids of the wards are read nowhere and left out) and call the locals *)
(* of save_extraction_data; the runs of the extractor alone leave both as  *)
(* they start.  other is a second call of save_extraction_data on the same *)
(* database file, made by another caller: its position (phase) and its     *)
(* locals (call); phase "none" where no such call is made.                 *)
(***************************************************************************)
VARIABLES extracted_data, current_state, current_lga,
          seen_states, seen_lgas, seen_wards, raised, phase, history,
          pages, page_num, db, call, service, other

vars == <<extracted_data, current_state, current_lga,
          seen_states, seen_lgas, seen_wards, raised, phase, history,
          pages, page_num, db, call, service, other>>

MaxOps == 5             \* rows and lines fed in one run

\* cell and line texts of the bounded inputs
sOYO == <<"O","Y","O">>
sKANO == <<"K","A","N","O">>
sStateKano == <<"S","T","A","T","E",":"," ","K","A","N","O">>
sPage1 == <<"P","a","g","e"," ","1">>
sAb == <<"A","b">>
saB == <<"a","B">>
sCd == <<"C","d">>
sWx == <<"W","x">>
sWz == <<"W","z">>
sZone == <<"z","o","n","e">>
sEf == <<"E","f">>
s03 == <<"0","3">>
s01 == <<"0","1">>
s02 == <<"0","2">>
sXx == <<"X","x">>
s5 == <<"5">>
s7 == <<"7">>

RowAb == <<sAb, s01>>                       \* name, code
RowCd == <<sCd, <<>>, s02 \o <<" ">>>>      \* name, '', code with a trailing blank
RowAbWx == <<saB, s01, sWx, None, s7>>      \* LGA name, LGA code, ward name, None, ward code
RowWz == <<sWz, sZone, s5>>                 \* ward name, text, ward code
RowNoise == <<None, <<>>, sZone>>           \* a single non-empty cell

RowEf == <<sEf, s03>>                       \* name, code

Rows == {RowAb, RowCd, RowAbWx, RowWz, RowNoise}
Tables == {<<r>> : r \in Rows} \cup {<<RowAb, RowWz>>}
Texts == {sOYO, sKANO, sPage1 \o <<NL>> \o sStateKano}

\* the database after init_db, and the locals before save_extraction_data runs
NewDatabase == [lgas |-> <<>>, lgas_seq |-> 0, wards |-> <<>>,
                extraction_logs |-> <<>>]
NoCall == [log_id |-> 0, lgas_created |-> 0, wards_created |-> 0,
           state_id |-> 0, lga_id |-> 0, pos |-> NoPosition,
           error |-> "", swallowed |-> FALSE]
\* no second caller
NoOther == [phase |-> "none", call |-> NoCall]

\* extract_and_save before it is called: no temporary file, nothing returned
NoResult == [returned |-> FALSE, success |-> FALSE, error |-> "",
             json_file |-> "None", database_log_id |-> 0]
NoResponse == [status |-> "", message |-> "", data |-> "None"]
NoService ==
    [entry |-> "", readable |-> FALSE, save_to_db |-> FALSE, save_to_json |-> FALSE,
     temp_path |-> "None", temp_file |-> "none", json_file |-> "none",
     error |-> "", escaped |-> FALSE, warned |-> FALSE,
     result |-> NoResult, response |-> NoResponse]

Self ==
    [ states |-> extracted_data.states, lgas |-> extracted_data.lgas,
      wards |-> extracted_data.wards,
      current_state |-> current_state, current_lga |-> current_lga,
      seen_states |-> seen_states, seen_lgas |-> seen_lgas,
      seen_wards |-> seen_wards, raised |-> raised ]

Becomes(S) ==
    /\ extracted_data' = [states |-> S.states, lgas |-> S.lgas, wards |-> S.wards]
    /\ current_state' = S.current_state
    /\ current_lga' = S.current_lga
    /\ seen_states' = S.seen_states
    /\ seen_lgas' = S.seen_lgas
    /\ seen_wards' = S.seen_wards
    /\ raised' = S.raised

Fed(kind, items) == [i \in DOMAIN items |-> [kind |-> kind, val |-> items[i]]]

\* __init__
Init ==
    /\ extracted_data = [states |-> <<>>, lgas |-> <<>>, wards |-> <<>>]
    /\ current_state = 0
    /\ current_lga = 0
    /\ seen_states = {}
    /\ seen_lgas = {}
    /\ seen_wards = {}
    /\ raised = FALSE
    /\ phase = "open"
    /\ history = <<>>
    /\ pages = <<>>
    /\ page_num = 0
    /\ db = NewDatabase
    /\ call = NoCall
    /\ service = NoService
    /\ other = NoOther

\* extract_all: the loop takes the next page
BeginPage ==
    /\ ~raised
    /\ phase \in {"open", "page_done"}
    /\ phase' = "tables"
    /\ UNCHANGED <<extracted_data, current_state, current_lga,
                   seen_states, seen_lgas, seen_wards, raised, history,
                   pages, page_num, db, call, service, other>>

\* _process_page: one table of the page through _extract_table_data
ExtractTable(table) ==
    /\ ~raised
    /\ phase = "tables"
    /\ Len(history) + Len(table) <= MaxOps
    /\ Becomes(extract_table_data(Self, table))
    /\ history' = history \o Fed("row", table)
    /\ UNCHANGED <<phase, pages, page_num, db, call, service, other>>

\* _process_page: the page's text through _extract_text_data
ExtractText(text) ==
    /\ ~raised
    /\ phase = "tables"
    /\ Len(history) + Len(split_on(text, NL)) <= MaxOps
    /\ Becomes(extract_text_data(Self, text))
    /\ history' = history \o Fed("line", split_on(text, NL))
    /\ phase' = "page_done"
    /\ UNCHANGED <<pages, page_num, db, call, service, other>>

\* _process_page: extract_text gave nothing
NoText ==
    /\ ~raised
    /\ phase = "tables"
    /\ phase' = "page_done"
    /\ UNCHANGED <<extracted_data, current_state, current_lga,
                   seen_states, seen_lgas, seen_wards, raised, history,
                   pages, page_num, db, call, service, other>>

\* extract_all: no page is left, return self.extracted_data
Return ==
    /\ ~raised
    /\ phase \in {"open", "page_done"}
    /\ phase' = "returned"
    /\ UNCHANGED <<extracted_data, current_state, current_lga,
                   seen_states, seen_lgas, seen_wards, raised, history,
                   pages, page_num, db, call, service, other>>

Next ==
    \/ BeginPage
    \/ \E table \in Tables : ExtractTable(table)
    \/ \E text \in Texts : ExtractText(text)
    \/ NoText
    \/ Return

Spec == Init /\ [][Next]_vars

\* a run over pages that hold (name, code) rows only: no text, no banner
BoundaryTables == {<<RowAb>>, <<RowCd>>, <<RowEf>>}

NextBoundary ==
    \/ BeginPage
    \/ \E table \in BoundaryTables : ExtractTable(table)
    \/ NoText
    \/ Return

SpecBoundary == Init /\ [][NextBoundary]_vars

\* extract_all called again on the same PDFExtractor: nothing is reset, the
\* page loop starts over with the fields the previous call left
ExtractAllAgain ==
    /\ ~raised
    /\ phase = "returned"
    /\ phase' = "open"
    /\ UNCHANGED <<extracted_data, current_state, current_lga,
                   seen_states, seen_lgas, seen_wards, raised, history,
                   pages, page_num, db, call, service, other>>

\* runs of several extract_all calls on one extractor, over (name, code) rows
\* and banner lines
AgainTables == {<<RowAb>>, <<RowCd>>}
AgainTexts == {sOYO, sKANO}

NextAgain ==
    \/ BeginPage
    \/ \E table \in AgainTables : ExtractTable(table)
    \/ \E text \in AgainTexts : ExtractText(text)
    \/ NoText
    \/ Return
    \/ ExtractAllAgain

SpecAgain == Init /\ [][NextAgain]_vars

\* runs over pages of text only, with lines at the edges of _is_state_header:
\* upper-case with a digit, 2 and 41 characters long, and a plain banner
sABCDE1 == <<"A","B","C","D","E","1">>
sAB == <<"A","B">>
sLong == [i \in 1..41 |-> "A"]
BannerTexts == {sABCDE1, sAB, sLong, sOYO}

NextBanner ==
    \/ BeginPage
    \/ \E text \in BannerTexts : ExtractText(text)
    \/ NoText
    \/ Return

SpecBanner == Init /\ [][NextBanner]_vars

\* runs over pages whose tables hold header rows and noise rows beside a
\* (name, code) row
sLgaName == <<"L","G","A"," ","N","a","m","e">>
sWardName == <<"W","a","r","d"," ","N","a","m","e">>
sCode == <<"C","o","d","e">>
sLgaCode == <<"L","g","a"," ","C","o","d","e">>

RowHeader == <<sLgaName, sWardName, sCode>>     \* the header of a table
RowLgaCode == <<sLgaCode, s01>>                 \* two keywords, and a code in the last cell
RowEmpty == <<None, <<>>>>                      \* every cell None or ''
RowBlank == <<<<" ", "\f", "">>, s01>>        \* a cell of white space and a code

NoiseTables == {<<RowHeader>>, <<RowLgaCode>>, <<RowEmpty>>, <<RowBlank>>,
                <<RowNoise>>, <<RowAb>>}
NoiseTexts == {sOYO}

NextNoise ==
    \/ BeginPage
    \/ \E table \in NoiseTables : ExtractTable(table)
    \/ \E text \in NoiseTexts : ExtractText(text)
    \/ NoText
    \/ Return

SpecNoise == Init /\ [][NextNoise]_vars

\* runs over pages of text only, with banners of several words, of words
\* parted by two blanks, with a lower-case word, and the bare prefix STATE:
sNorthEast == <<"N","O","R","T","H"," ","E","A","S","T">>
sNorthEastern == <<"N","O","R","T","H"," "," ","E","A","S","T","E","R","N">>
sLowerWord == <<"A","B","C","D","E","F","G","H","I"," ","x">>
sStateOnly == <<"S","T","A","T","E",":">>
CodeTexts == {sNorthEast, sNorthEastern, sLowerWord, sStateOnly}

NextCode ==
    \/ BeginPage
    \/ \E text \in CodeTexts : ExtractText(text)
    \/ NoText
    \/ Return

SpecCode == Init /\ [][NextCode]_vars

\* runs over rows whose names differ in letter case and surrounding white
\* space only
sABpad == <<" ","A","B"," ">>
sWXpad == <<" ","W","X">>
s09 == <<"0","9">>

RowABpad == <<sABpad, s01>>                 \* ' AB ' with the code of RowAb
RowAB09 == <<sABpad, s09>>                  \* ' AB ' with another code
RowABzone == <<sABpad, s01, sZone>>         \* name, code, text
RowWXpad == <<sWXpad, sZone, s7>>           \* ward name, text, ward code

CaseTables == {<<RowAb>>, <<RowABpad>>, <<RowAB09>>, <<RowABzone>>,
               <<RowAbWx>>, <<RowWXpad>>}
CaseTexts == {sOYO}

NextCase ==
    \/ BeginPage
    \/ \E table \in CaseTables : ExtractTable(table)
    \/ \E text \in CaseTexts : ExtractText(text)
    \/ NoText
    \/ Return

SpecCase == Init /\ [][NextCase]_vars

\* the rows and lines of a page in the order _process_page reads them
RECURSIVE Concat(_)
Concat(seqs) == IF seqs = <<>> THEN <<>> ELSE Head(seqs) \o Concat(Tail(seqs))

PageFeed(page) ==
    Fed("row", Concat(page.tables))
        \o (IF page.text # <<>> THEN Fed("line", split_on(page.text, NL)) ELSE <<>>)

\* a run of extract_all over a document fixed at the start
MaxPages == 3           \* pages of a document

PageBanner == [tables |-> <<>>, text |-> sOYO]
PageRow == [tables |-> << <<RowAb>> >>, text |-> <<>>]
PageFull == [tables |-> << <<RowAbWx, RowWz>>, <<RowNoise>> >>,
             text |-> sPage1 \o <<NL>> \o sStateKano]
PageMalformed == [tables |-> << <<>>, << <<>>, RowEmpty, RowBlank, <<None, s01, None>> >> >>,
                  text |-> <<" ", NL, NL, "1", "\t">>]
PageSet == {PageBanner, PageRow, PageFull, PageMalformed}
Documents == UNION {[1..n -> PageSet] : n \in 0..MaxPages}

InitDocument ==
    /\ extracted_data = [states |-> <<>>, lgas |-> <<>>, wards |-> <<>>]
    /\ current_state = 0
    /\ current_lga = 0
    /\ seen_states = {}
    /\ seen_lgas = {}
    /\ seen_wards = {}
    /\ raised = FALSE
    /\ phase = "open"
    /\ history = <<>>
    /\ pages \in Documents
    /\ page_num = 0
    /\ db = NewDatabase
    /\ call = NoCall
    /\ service = NoService
    /\ other = NoOther

\* extract_all: one turn of "for page_num, page in enumerate(pdf.pages)"
ProcessPage ==
    /\ ~raised
    /\ phase \in {"open", "page_done"}
    /\ page_num < Len(pages)
    /\ Becomes(process_page(Self, pages[page_num + 1]))
    /\ history' = history \o PageFeed(pages[page_num + 1])
    /\ page_num' = page_num + 1
    /\ phase' = "page_done"
    /\ UNCHANGED <<pages, db, call, service, other>>

\* extract_all: the loop is over, return self.extracted_data
ReturnDocument ==
    /\ ~raised
    /\ phase \in {"open", "page_done"}
    /\ page_num = Len(pages)
    /\ phase' = "returned"
    /\ UNCHANGED <<extracted_data, current_state, current_lga,
                   seen_states, seen_lgas, seen_wards, raised, history,
                   pages, page_num, db, call, service, other>>

NextDocument ==
    \/ ProcessPage
    \/ ReturnDocument

\* the two moves of the for loop, read off its own variables: the loop takes
\* the next page; the loop is left after the last page
TakesPage ==
    /\ ~raised
    /\ phase \in {"open", "page_done"}
    /\ page_num < Len(pages)
    /\ page_num' = page_num + 1

LeavesLoop ==
    /\ ~raised
    /\ phase \in {"open", "page_done"}
    /\ page_num = Len(pages)
    /\ phase' = "returned"

\* the loop of extract_all goes on by itself: a move of the loop that stays
\* possible is taken
SpecDocument ==
    InitDocument /\ [][NextDocument]_vars
        /\ WF_page_num(TakesPage) /\ WF_phase(LeavesLoop)

(***************************************************************************)
(* save_extraction_data, called by extract_and_save with what extract_all  *)
(* returned.  The connection is in autocommit mode, so every statement is  *)
(* in the database once it has run.  fault is cursor.execute raising       *)
(* sqlite3.OperationalError (a locked or unreachable database).  phase     *)
(* goes on from "returned": "log_written", "data_written", "saved" (the    *)
(* call returned), or "handling" (in the except clause) and "save_raised".  *)
(***************************************************************************)
filename == "upload.pdf"

\* the row INSERT INTO extraction_logs (filename, status) makes
log_in_progress ==
    [filename |-> filename, status |-> "in_progress",
     total_lgas_extracted |-> 0, total_wards_extracted |-> 0,
     error_message |-> "", completed |-> FALSE]

\* UPDATE extraction_logs SET status = 'success', the counts, completed_at
log_success(row, lgas_created, wards_created) ==
    [row EXCEPT !.status = "success",
                !.total_lgas_extracted = lgas_created,
                !.total_wards_extracted = wards_created,
                !.completed = TRUE]

\* UPDATE extraction_logs SET status = 'failed', error_message, completed_at
log_failed(row, error) ==
    [row EXCEPT !.status = "failed", !.error_message = error, !.completed = TRUE]

(***************************************************************************)
(* The statements of one call of save_extraction_data as functions of the  *)
(* database D and the locals C of the call: each gives the database, the   *)
(* locals and the position of the call after the statement.  Two calls on  *)
(* one database file take their statements in any order.                   *)
(***************************************************************************)
\* the INSERT of the log row; log_id = cursor.lastrowid.  The call then runs
\* on to the first statement of the loop.
insert_log(D, state_list, fault) ==
    IF fault
    THEN [db |-> D, call |-> [NoCall EXCEPT !.error = "OperationalError"],
          phase |-> "handling"]
    ELSE LET pos == seek_state(state_list, 1)
         IN  [db |-> [D EXCEPT !.extraction_logs = Append(@, log_in_progress)],
              call |-> [NoCall EXCEPT
                          !.log_id = Len(D.extraction_logs) + 1,
                          !.pos = pos,
                          !.error = IF pos.at = "raise"
                                    THEN "AttributeError" ELSE @],
              phase |-> phase_at(pos)]

\* one cursor.execute of the loop over the states, their LGAs and wards.  When
\* it raises, what the statements before it wrote stays in the database.
loop_statement(D, C, state_list, fault) ==
    IF fault
    THEN [db |-> D, call |-> [C EXCEPT !.error = "OperationalError"],
          phase |-> "handling"]
    ELSE LET after == save_statement(D, C, state_list)
         IN  [db |-> after.db,
              call |-> [after.call EXCEPT
                          !.error = IF after.call.pos.at = "raise"
                                    THEN "AttributeError" ELSE @],
              phase |-> phase_at(after.call.pos)]

\* the UPDATE to 'success', conn.commit() and the return
update_success(D, C, fault) ==
    IF fault
    THEN [db |-> D, call |-> [C EXCEPT !.error = "OperationalError"],
          phase |-> "handling"]
    ELSE [db |-> [D EXCEPT !.extraction_logs[C.log_id] =
                     log_success(@, C.lgas_created, C.wards_created)],
          call |-> C, phase |-> "saved"]

\* the except clause: the UPDATE to 'failed' inside try / except: pass, then
\* raise.  With log_id None the UPDATE meets no row.
except_clause(D, C, fault) ==
    IF fault
    THEN [db |-> D, call |-> [C EXCEPT !.swallowed = TRUE],
          phase |-> "save_raised"]
    ELSE [db |-> IF C.log_id = 0 THEN D
                 ELSE [D EXCEPT !.extraction_logs[C.log_id] =
                                   log_failed(@, C.error)],
          call |-> C, phase |-> "save_raised"]

\* the call under test takes the step whose outcome is after
Takes(after) ==
    /\ db' = after.db
    /\ call' = after.call
    /\ phase' = after.phase
    /\ UNCHANGED <<extracted_data, current_state, current_lga,
                   seen_states, seen_lgas, seen_wards, raised, history,
                   pages, page_num, service, other>>

\* the INSERT of the log row
SaveBegin(fault) ==
    /\ ~raised
    /\ phase = "returned"
    /\ Takes(insert_log(db, get(extracted_data, "states", <<>>), fault))

\* one cursor.execute of the loop
SaveData(fault) ==
    /\ phase = "log_written"
    /\ Takes(loop_statement(db, call, get(extracted_data, "states", <<>>), fault))

\* the UPDATE to 'success' and the return
SaveSuccess(fault) ==
    /\ phase = "data_written"
    /\ Takes(update_success(db, call, fault))

\* the except clause
SaveHandler(fault) ==
    /\ phase = "handling"
    /\ Takes(except_clause(db, call, fault))

\* extract_and_save with save_to_db: extract_all over a document, then
\* save_extraction_data on what it returned
NextService ==
    \/ ProcessPage
    \/ ReturnDocument
    \/ \E fault \in BOOLEAN : SaveBegin(fault)
    \/ \E fault \in BOOLEAN : SaveData(fault)
    \/ \E fault \in BOOLEAN : SaveSuccess(fault)
    \/ \E fault \in BOOLEAN : SaveHandler(fault)

SpecService == InitDocument /\ [][NextService]_vars

(***************************************************************************)
(* extract_and_save and process_uploaded_file.  service holds the          *)
(* arguments of the call (readable: file_obj has a read method), the       *)
(* temporary file, the JSON file, the exception on its way (error) and     *)
(* what the call returned.  phase goes "called", "temp_written", then the  *)
(* phases of extract_all and of save_extraction_data, "excepted" (an       *)
(* exception reached the except clauses), "finally", "done" (the call      *)
(* returned or raised), "responded" (process_uploaded_file returned).      *)
(* warned: the finally clause logged that it could not delete the file.    *)
(***************************************************************************)
\* extract_and_save with the clause "except FileNotFoundError" alone: any other
\* exception leaves the call
handle_file_not_found_only(sv, error) ==
    IF error = "FileNotFoundError"
    THEN [sv EXCEPT !.error = error,
                    !.result = [NoResult EXCEPT !.returned = TRUE,
                                                !.error = "PDF file error"]]
    ELSE [sv EXCEPT !.error = error, !.escaped = TRUE]

\* the two except clauses of extract_and_save; error stays as the record of
\* the exception that was caught
handle_exception(sv, error) ==
    [sv EXCEPT !.error = error,
               !.result = [NoResult EXCEPT
                             !.returned = TRUE,
                             !.error = IF error = "FileNotFoundError"
                                       THEN "PDF file error"
                                       ELSE "Error during extraction"]]

\* the return of extract_and_save after extraction and the requested saves
success_result(sv, log_id) ==
    [sv EXCEPT !.result = [returned |-> TRUE, success |-> TRUE, error |-> "",
                           json_file |-> IF sv.save_to_json THEN "json_path" ELSE "None",
                           database_log_id |-> log_id]]

\* a clean-up that runs only when the call is about to return a success
remove_temp_after_success(sv, fault) ==
    IF sv.result.success /\ sv.temp_path # "None" /\ sv.temp_file = "exists"
    THEN IF fault THEN [sv EXCEPT !.warned = TRUE]
         ELSE [sv EXCEPT !.temp_file = "removed"]
    ELSE sv

\* the finally clause: os.remove(temp_path) when the path is set and exists;
\* fault: os.remove raises, the clause logs a warning and the file stays
remove_temp(sv, fault) ==
    IF sv.temp_path # "None" /\ sv.temp_file = "exists"
    THEN IF fault THEN [sv EXCEPT !.warned = TRUE]
         ELSE [sv EXCEPT !.temp_file = "removed"]
    ELSE sv

\* process_uploaded_file: what it returns for the result of extract_and_save,
\* or for an exception that came out of it
process_response(sv) ==
    IF sv.escaped
    THEN [status |-> "error", message |-> "Failed to process file", data |-> "None"]
    ELSE IF sv.result.success
    THEN [status |-> "success", message |-> "Extraction completed successfully",
          data |-> "result"]
    ELSE [status |-> "error", message |-> sv.result.error, data |-> "None"]

UploadCalls ==
    {[NoService EXCEPT !.entry = "extract_and_save", !.readable = r,
                       !.save_to_db = d, !.save_to_json = j] : r, d, j \in BOOLEAN}
    \cup {[NoService EXCEPT !.entry = "process_uploaded_file", !.readable = r,
                            !.save_to_db = TRUE, !.save_to_json = TRUE] : r \in BOOLEAN}

InitUpload ==
    /\ extracted_data = [states |-> <<>>, lgas |-> <<>>, wards |-> <<>>]
    /\ current_state = 0
    /\ current_lga = 0
    /\ seen_states = {}
    /\ seen_lgas = {}
    /\ seen_wards = {}
    /\ raised = FALSE
    /\ phase = "called"
    /\ history = <<>>
    /\ pages \in Documents
    /\ page_num = 0
    /\ db = NewDatabase
    /\ call = NoCall
    /\ service \in UploadCalls
    /\ other = NoOther

\* what can go wrong with the temporary file: the directory of temporary files
\* is missing (FileNotFoundError), the file cannot be created (PermissionError),
\* the write fails on an open file (OSError, a full disk)
CreateFaults == {"none", "no_directory", "cannot_create", "cannot_write"}

\* tempfile.NamedTemporaryFile(delete=False), temp_path = temp_file.name and
\* temp_file.write(file_obj.read()).  file_obj.read() is evaluated on the open
\* file, before the write.
CreateTemp(fault) ==
    /\ phase = "called"
    /\ IF fault = "no_directory"
       THEN /\ service' = [service EXCEPT !.error = "FileNotFoundError"]
            /\ phase' = "excepted"
       ELSE IF fault = "cannot_create"
       THEN /\ service' = [service EXCEPT !.error = "PermissionError"]
            /\ phase' = "excepted"
       ELSE IF ~service.readable
       THEN /\ service' = [service EXCEPT !.temp_path = "temp_path",
                                          !.temp_file = "exists",
                                          !.error = "AttributeError"]
            /\ phase' = "excepted"
       ELSE IF fault = "cannot_write"
       THEN /\ service' = [service EXCEPT !.temp_path = "temp_path",
                                          !.temp_file = "exists",
                                          !.error = "OSError"]
            /\ phase' = "excepted"
       ELSE /\ service' = [service EXCEPT !.temp_path = "temp_path",
                                          !.temp_file = "exists"]
            /\ phase' = "temp_written"
    /\ UNCHANGED <<extracted_data, current_state, current_lga,
                   seen_states, seen_lgas, seen_wards, raised, history,
                   pages, page_num, db, call, other>>

\* PDFExtractor(temp_path) and pdfplumber.open in extract_all; fault: the file
\* is no PDF and extract_all re-raises
OpenPdf(fault) ==
    /\ phase = "temp_written"
    /\ IF fault
       THEN /\ service' = [service EXCEPT !.error = "PDFSyntaxError"]
            /\ phase' = "excepted"
       ELSE /\ phase' = "open"
            /\ UNCHANGED service
    /\ UNCHANGED <<extracted_data, current_state, current_lga,
                   seen_states, seen_lgas, seen_wards, raised, history,
                   pages, page_num, db, call, other>>

\* extractor.export_to_json(json_path) when save_to_json; error: what
\* open(output_path, 'w') raises, "" when it raises nothing
ExportJson(error) ==
    /\ phase = "returned"
    /\ service.save_to_json /\ service.json_file = "none"
    /\ IF error # ""
       THEN /\ service' = [service EXCEPT !.error = error]
            /\ phase' = "excepted"
       ELSE /\ service' = [service EXCEPT !.json_file = "written"]
            /\ UNCHANGED phase
    /\ UNCHANGED <<extracted_data, current_state, current_lga,
                   seen_states, seen_lgas, seen_wards, raised, history,
                   pages, page_num, db, call, other>>

\* the JSON export is behind: it was not asked for, or the file is written
Exported == service.save_to_json => service.json_file = "written"

\* DatabaseManager.save_extraction_data(extracted_data, filename) when save_to_db
CallSave(fault) ==
    /\ service.save_to_db /\ Exported
    /\ SaveBegin(fault)

\* the result dict and "return result, message"
ReturnResult ==
    /\ \/ phase = "saved"
       \/ phase = "returned" /\ ~service.save_to_db /\ Exported
    /\ service' = success_result(service, call.log_id)
    /\ phase' = "finally"
    /\ UNCHANGED <<extracted_data, current_state, current_lga,
                   seen_states, seen_lgas, seen_wards, raised, history,
                   pages, page_num, db, call, other>>

\* except FileNotFoundError / except Exception, for an exception of
\* extract_and_save itself or one save_extraction_data raised
ExceptClause ==
    /\ phase \in {"excepted", "save_raised"}
    /\ service' = handle_exception(service,
                     IF phase = "save_raised" THEN call.error ELSE service.error)
    /\ phase' = "finally"
    /\ UNCHANGED <<extracted_data, current_state, current_lga,
                   seen_states, seen_lgas, seen_wards, raised, history,
                   pages, page_num, db, call, other>>

\* the finally clause, then the call is over; fault: os.remove raises
Finally(fault) ==
    /\ phase = "finally"
    /\ fault => service.temp_path # "None" /\ service.temp_file = "exists"
    /\ service' = remove_temp(service, fault)
    /\ phase' = "done"
    /\ UNCHANGED <<extracted_data, current_state, current_lga,
                   seen_states, seen_lgas, seen_wards, raised, history,
                   pages, page_num, db, call, other>>

\* process_uploaded_file after its call of extract_and_save
Respond ==
    /\ phase = "done"
    /\ service.entry = "process_uploaded_file"
    /\ service' = [service EXCEPT !.response = process_response(service)]
    /\ phase' = "responded"
    /\ UNCHANGED <<extracted_data, current_state, current_lga,
                   seen_states, seen_lgas, seen_wards, raised, history,
                   pages, page_num, db, call, other>>

ExportErrors == {"", "FileNotFoundError", "PermissionError"}

NextUpload ==
    \/ \E fault \in CreateFaults : CreateTemp(fault)
    \/ \E fault \in BOOLEAN : OpenPdf(fault)
    \/ ProcessPage
    \/ ReturnDocument
    \/ \E error \in ExportErrors : ExportJson(error)
    \/ \E fault \in BOOLEAN : CallSave(fault)
    \/ \E fault \in BOOLEAN : SaveData(fault)
    \/ \E fault \in BOOLEAN : SaveSuccess(fault)
    \/ \E fault \in BOOLEAN : SaveHandler(fault)
    \/ ReturnResult
    \/ ExceptClause
    \/ \E fault \in BOOLEAN : Finally(fault)
    \/ Respond

SpecUpload == InitUpload /\ [][NextUpload]_vars

\* rows where the only plausible code is the first cell, and where a text
\* cell stands between the ward name and the ward code
RowCodeFirst == <<s01, sAb, sZone>>             \* code, name, text
RowWardText == <<sAb, s01, sWx, sZone, s7>>     \* LGA name, LGA code, ward name, text, ward code

ShapeTables == {<<RowAb>>, <<RowCodeFirst>>, <<RowWardText>>, <<RowWz>>, <<RowAbWx>>}
ShapeTexts == {sOYO}

NextShape ==
    \/ BeginPage
    \/ \E table \in ShapeTables : ExtractTable(table)
    \/ \E text \in ShapeTexts : ExtractText(text)
    \/ NoText
    \/ Return

SpecShape == Init /\ [][NextShape]_vars

\* state and LGA names that hold the separator of the dedup keys
sAAAAA == <<"A","A","A","A","A">>
sAAAAA_B == <<"A","A","A","A","A","_","B">>
sC == <<"C">>
sB_C == <<"B","_","C">>

RowC == <<sC, s01>>                         \* name, code
RowB_C == <<sB_C, s02>>                     \* name with the separator, code

KeyTables == {<<RowC>>, <<RowB_C>>}
KeyTexts == {sAAAAA, sAAAAA_B}

NextKey ==
    \/ BeginPage
    \/ \E table \in KeyTables : ExtractTable(table)
    \/ \E text \in KeyTexts : ExtractText(text)
    \/ NoText
    \/ Return

SpecKey == Init /\ [][NextKey]_vars

\* save_extraction_data called on its own with a document of nested states
MaxSaveStates == 2      \* states of a document handed to save_extraction_data

sOyoLower == <<"o","y","o"," ">>

\* a state of the states table with two LGAs of one code and wards of one
\* code, and a third LGA after them
StateNested ==
    [name |-> sOyoLower,
     lgas |-> << [name |-> sAb, code |-> s01,
                  wards |-> << [name |-> sWx, code |-> s7],
                               [name |-> sWz, code |-> s7] >>],
                 [name |-> sCd, code |-> s01,
                  wards |-> << [name |-> sWz, code |-> s5],
                               [name |-> <<>>, code |-> s5] >>],
                 [name |-> sEf, code |-> s02,
                  wards |-> << [name |-> sWx, code |-> s7] >>] >>]
\* a state of the states table with an LGA one of whose wards has the name None
StateBadWard ==
    [name |-> sKANO,
     lgas |-> << [name |-> sAb, code |-> s01,
                  wards |-> << [name |-> None, code |-> s7] >>] >>]
\* a state as the parser writes it
StateFlat == [name |-> sKANO, code |-> <<"K">>]
\* a state whose name is None
StateNoName == [name |-> None, lgas |-> <<>>]
\* a state that is no row of the states table
StateUnknown == [name |-> sAB, lgas |-> << [name |-> sAb, code |-> s01] >>]

SaveStates == {StateNested, StateBadWard, StateFlat, StateNoName, StateUnknown}
SaveInputs == UNION {[1..n -> SaveStates] : n \in 0..MaxSaveStates}

\* what the other caller hands to save_extraction_data: the state OYO with the
\* LGA Xx of the code 02 and a ward of the code 7
OtherStates ==
    << [name |-> sOYO,
        lgas |-> << [name |-> sXx, code |-> s02,
                     wards |-> << [name |-> sWz, code |-> s7] >>] >>] >>

\* the other call is about to be made
OtherWaiting == [phase |-> "returned", call |-> NoCall]

InitSave ==
    /\ extracted_data \in {[states |-> d, lgas |-> <<>>, wards |-> <<>>] : d \in SaveInputs}
    /\ current_state = 0
    /\ current_lga = 0
    /\ seen_states = {}
    /\ seen_lgas = {}
    /\ seen_wards = {}
    /\ raised = FALSE
    /\ phase = "returned"
    /\ history = <<>>
    /\ pages = <<>>
    /\ page_num = 0
    /\ db = NewDatabase
    /\ call = NoCall
    /\ service = NoService
    /\ other = OtherWaiting

\* the other call takes the step whose outcome is after
OtherTakes(after) ==
    /\ db' = after.db
    /\ other' = [phase |-> after.phase, call |-> after.call]
    /\ UNCHANGED <<extracted_data, current_state, current_lga,
                   seen_states, seen_lgas, seen_wards, raised, phase, history,
                   pages, page_num, call, service>>

\* the statements of the other call, each committed on its own, between the
\* statements of the call under test
OtherBegin(fault) ==
    /\ other.phase = "returned"
    /\ OtherTakes(insert_log(db, OtherStates, fault))

OtherData(fault) ==
    /\ other.phase = "log_written"
    /\ OtherTakes(loop_statement(db, other.call, OtherStates, fault))

OtherSuccess(fault) ==
    /\ other.phase = "data_written"
    /\ OtherTakes(update_success(db, other.call, fault))

OtherHandler(fault) ==
    /\ other.phase = "handling"
    /\ OtherTakes(except_clause(db, other.call, fault))

NextSave ==
    \/ \E fault \in BOOLEAN : SaveBegin(fault)
    \/ \E fault \in BOOLEAN : SaveData(fault)
    \/ \E fault \in BOOLEAN : SaveSuccess(fault)
    \/ \E fault \in BOOLEAN : SaveHandler(fault)
    \/ \E fault \in BOOLEAN : OtherBegin(fault)
    \/ \E fault \in BOOLEAN : OtherData(fault)
    \/ \E fault \in BOOLEAN : OtherSuccess(fault)
    \/ \E fault \in BOOLEAN : OtherHandler(fault)

SpecSaveCall == InitSave /\ [][NextSave]_vars

(***************************************************************************)
(* Properties.                                                             *)
(***************************************************************************)
states == extracted_data.states
lgas == extracted_data.lgas
wards == extracted_data.wards

\* the step feeds exactly this one table row
FeedsRow(row) == history' = Append(history, [kind |-> "row", val |-> row])
LastFed == history[Len(history)]

\* everything the extractor holds: the document, the cursor, the dedup sets
parser_state == <<extracted_data, current_state, current_lga,
                  seen_states, seen_lgas, seen_wards>>

\* the non-empty cells of a raw table row, trimmed
Cells(row) ==
    LET NonBlank(c) == c # None /\ strip(c) # <<>>
        kept == SelectSeq(row, NonBlank)
    IN  [i \in DOMAIN kept |-> strip(kept[i])]

\* C1: no orphans. Every ward names, by its lga and state fields, exactly one
\* LGA of the document, and every LGA's state field names exactly one state.
C1_NoOrphans ==
    /\ \A w \in DOMAIN wards :
         Cardinality({i \in DOMAIN lgas :
                        lgas[i].name = wards[w].lga /\ lgas[i].state = wards[w].state}) = 1
    /\ \A l \in DOMAIN lgas :
         Cardinality({i \in DOMAIN states : states[i].name = lgas[l].state}) = 1

\* two states, an LGA in each, a ward: a ward was added after a state change
C1_Witness ==
    /\ Len(states) = 2
    /\ \E i, j \in DOMAIN lgas : lgas[i].state # lgas[j].state
    /\ \E w \in DOMAIN wards : wards[w].state = states[2].name

\* C2: within one state no two LGAs have the same upper-cased name, and
\* within one LGA no two wards have the same upper-cased name.
C2_UniqueNames ==
    /\ \A i, j \in DOMAIN lgas :
         (i # j /\ lgas[i].state = lgas[j].state)
            => upper(lgas[i].name) # upper(lgas[j].name)
    /\ \A i, j \in DOMAIN wards :
         (i # j /\ wards[i].state = wards[j].state /\ wards[i].lga = wards[j].lga)
            => upper(wards[i].name) # upper(wards[j].name)

\* "Ab" and then "aB" with the same ward twice were fed under one state:
\* one LGA and one ward exist
C2_Witness ==
    /\ Len(history) = 4
    /\ history[2].val = RowAb /\ history[3].val = RowAbWx /\ history[4].val = RowAbWx
    /\ Len(states) = 1 /\ Len(lgas) = 1 /\ Len(wards) = 1

\* the row passes the code test of _parse_table_row and reads (name, code, ...)
IsLevel2Record(row) ==
    LET c == Cells(row)
        n == Len(c)
    IN  /\ n >= 2
        /\ looks_like_code(c[2])
        /\ \E i \in {k \in DOMAIN c : k >= n - 1} :
              isdigit(c[i]) \/ (isalnum(c[i]) /\ Len(c[i]) <= 5)

\* 3 or more non-empty cells, the only plausible code in a trailing position
Level3Shaped(row) ==
    LET c == Cells(row)
        codes == {i \in DOMAIN c : looks_like_code(c[i])}
    IN  Len(c) >= 3 /\ Cardinality(codes) = 1 /\ \A i \in codes : i >= 3

\* the name a banner line gives: the line without its STATE: prefix, trimmed
BannerName(line) ==
    strip(remove(remove(strip(line), <<"S","T","A","T","E",":">>),
                 <<"S","t","a","t","e",":">>))

\* the LGAs of the current state with this name, letter case aside
Level2Named(name) ==
    {i \in DOMAIN lgas :
        lgas[i].state = states[current_state].name /\ upper(lgas[i].name) = upper(name)}

\* C3 (as claimed): a (name, code) row fed a second time right after itself,
\* under the same state, appends nothing, and leaves the one LGA of that name current.
C3_SameRowTwice ==
    [][ \A r \in Rows :
          ( /\ Len(Cells(r)) = 2 /\ IsLevel2Record(r)
            /\ current_state # 0
            /\ history # <<>> /\ LastFed = [kind |-> "row", val |-> r]
            /\ FeedsRow(r) )
          => ( /\ extracted_data' = extracted_data
               /\ Cardinality(Level2Named(Cells(r)[1])) = 1
               /\ current_lga' \in Level2Named(Cells(r)[1]) ) ]_vars

\* C4: while no state exists, a step that feeds table rows changes nothing
\* of the extractor and raises nothing.
C4_DropBeforeLevel1 ==
    [][ ( /\ states = <<>>
          /\ history' # history
          /\ history'[Len(history')].kind = "row" )
        => ( UNCHANGED parser_state /\ ~raised' ) ]_vars

\* an LGA row and a ward row were fed and no state exists
C4_Witness ==
    /\ \E i, j \in DOMAIN history :
          /\ history[i].kind = "row" /\ IsLevel2Record(history[i].val)
          /\ history[j].kind = "row" /\ Level3Shaped(history[j].val)
    /\ states = <<>> /\ lgas = <<>> /\ wards = <<>>
    /\ current_state = 0 /\ ~raised

\* C5: with a current state and no current LGA, a ward-shaped row changes
\* nothing of the extractor and raises nothing.
C5_DropLevel3WithoutLevel2 ==
    [][ \A r \in Rows :
          ( /\ current_state # 0 /\ current_lga = 0
            /\ Level3Shaped(r)
            /\ FeedsRow(r) )
          => ( UNCHANGED parser_state /\ ~raised' ) ]_vars

\* a ward row came right after the banner of a second state, while the first
\* state has an LGA: no ward exists
C5_Witness ==
    /\ Len(history) >= 4
    /\ history[Len(history) - 1].kind = "line"
    /\ LastFed.kind = "row" /\ Level3Shaped(LastFed.val)
    /\ current_state = 2 /\ current_lga = 0
    /\ Len(lgas) = 1 /\ lgas[1].state = states[1].name
    /\ wards = <<>>

\* the codes of the LGAs owned by a state name, in document order
CodesUnder(state) ==
    LET Owned(l) == l.state = state
        owned == SelectSeq(lgas, Owned)
    IN  [i \in DOMAIN owned |-> owned[i].code]

\* C6 (as claimed): with no banner and the reference ordering, LGA rows with the
\* codes 01, 02, 03, 01, 02 give the first reference state the LGA codes
\* [01, 02, 03] and the second the codes [01, 02].
C6_BoundaryDetection ==
    history = Fed("row", <<RowAb, RowCd, RowEf, RowAb, RowCd>>)
        => /\ Len(states) = 2
           /\ states[1].name = NIGERIAN_STATES[1]
           /\ states[2].name = NIGERIAN_STATES[2]
           /\ CodesUnder(NIGERIAN_STATES[1]) = <<s01, s02, s03>>
           /\ CodesUnder(NIGERIAN_STATES[2]) = <<s01, s02>>

\* the lines a step feeds (the new end of history), when it feeds lines
FedLines ==
    LET new == SubSeq(history', Len(history) + 1, Len(history'))
    IN  IF new # <<>> /\ new[1].kind = "line"
        THEN [i \in DOMAIN new |-> strip(new[i].val)]
        ELSE <<>>

\* the step feeds a page text holding exactly one banner line, of this name
FeedsBanner(name) ==
    LET banners == {i \in DOMAIN FedLines : is_state_header(FedLines[i])}
    IN  /\ Cardinality(banners) = 1
        /\ \A i \in banners : BannerName(FedLines[i]) = name

\* the states whose name is this one, letter case aside
Level1Named(name) == {i \in DOMAIN states : upper(states[i].name) = upper(name)}

BannerNames == {sOYO, sKANO}

\* C7: a banner whose name is no state yet appends that state, makes it the
\* current state and sets the current LGA to None, leaving LGAs and wards alone;
\* an LGA appended by a table row belongs to the current state, and a ward-shaped
\* row adds no ward while no LGA is current.
C7_NewBanner ==
    [][ /\ \A name \in BannerNames :
             (FeedsBanner(name) /\ Level1Named(name) = {})
             => ( /\ Len(states') = Len(states) + 1
                  /\ SubSeq(states', 1, Len(states)) = states
                  /\ states'[Len(states')].name = name
                  /\ current_state' = Len(states')
                  /\ current_lga' = 0
                  /\ lgas' = lgas /\ wards' = wards )
        /\ \A r \in Rows :
             (FeedsRow(r) /\ current_state # 0)
             => ( /\ \A i \in DOMAIN lgas' :
                       i > Len(lgas) => lgas'[i].state = states[current_state].name
                  /\ (current_lga = 0 /\ Level3Shaped(r)) => wards' = wards ) ]_vars

\* second banner after an LGA of the first state; then a ward row (dropped) and
\* an LGA row, which went to the second state
C7_Witness ==
    /\ Len(history) = 5
    /\ history[2].kind = "row" /\ history[3].kind = "line"
    /\ history[4].kind = "row" /\ Level3Shaped(history[4].val)
    /\ history[5].kind = "row" /\ IsLevel2Record(history[5].val)
    /\ Len(states) = 2 /\ current_state = 2
    /\ Len(lgas) = 2
    /\ lgas[1].state = states[1].name /\ lgas[2].state = states[2].name
    /\ current_lga = 2
    /\ wards = <<>>

\* C8 (as claimed): a banner for a state that exists, met while another state
\* is current, makes the existing state current again and creates no state.
C8_BannerReselects ==
    [][ \A name \in BannerNames : \A i \in DOMAIN states :
          ( /\ FeedsBanner(name)
            /\ i \in Level1Named(name)
            /\ current_state # i )
          => ( states' = states /\ current_state' = i ) ]_vars

\* C9: a Level2 record naming an LGA of the current state that exists, met while
\* another LGA is current, makes that LGA current, creates no LGA, and the wards
\* the row adds are wards of that LGA; a ward-shaped row leaves the current LGA
\* alone and what it adds is a ward of it.
C9_ReselectLevel2 ==
    [][ \A r \in Rows :
          /\ \A i \in DOMAIN lgas :
               ( /\ FeedsRow(r) /\ IsLevel2Record(r)
                 /\ current_state # 0
                 /\ i \in Level2Named(Cells(r)[1])
                 /\ current_lga # 0 /\ current_lga # i )
               => ( /\ current_lga' = i
                    /\ lgas' = lgas /\ states' = states
                    /\ SubSeq(wards', 1, Len(wards)) = wards
                    /\ \A w \in DOMAIN wards' :
                         w > Len(wards) => /\ wards'[w].lga = lgas[i].name
                                           /\ wards'[w].state = lgas[i].state )
          /\ ( FeedsRow(r) /\ Level3Shaped(r) /\ current_lga # 0 )
               => ( /\ current_lga' = current_lga /\ lgas' = lgas
                    /\ \A w \in DOMAIN wards' :
                         w > Len(wards) => /\ wards'[w].lga = lgas[current_lga].name
                                           /\ wards'[w].state = lgas[current_lga].state ) ]_vars

\* LGA 1, then LGA 2, then a row naming LGA 1 with a ward, then a ward row:
\* LGA 1 is current and owns both wards
C9_Witness ==
    /\ Len(history) = 5
    /\ history[4].kind = "row"
    /\ IsLevel2Record(history[4].val) /\ Len(Cells(history[4].val)) >= 4
    /\ history[5].kind = "row" /\ Level3Shaped(history[5].val)
    /\ Len(states) = 1 /\ Len(lgas) = 2 /\ current_lga = 1
    /\ upper(lgas[1].name) = upper(Cells(history[4].val)[1])
    /\ Len(wards) = 2
    /\ \A w \in DOMAIN wards : wards[w].lga = lgas[1].name

\* C10 (as claimed): a row of exactly two non-empty cells, a name and a plausible
\* code, is a Level2 record when no LGA is current, and is attached as a ward of
\* the current LGA when one is.
C10_TwoCellRow ==
    [][ \A r \in Rows :
          ( /\ FeedsRow(r)
            /\ Len(Cells(r)) = 2 /\ looks_like_code(Cells(r)[2])
            /\ current_state # 0 )
          => IF current_lga = 0
             THEN /\ current_lga' \in DOMAIN lgas'
                  /\ upper(lgas'[current_lga'].name) = upper(Cells(r)[1])
                  /\ wards' = wards
             ELSE /\ lgas' = lgas /\ current_lga' = current_lga
                  /\ \E w \in DOMAIN wards' :
                       /\ wards'[w].name = Cells(r)[1]
                       /\ wards'[w].lga = lgas[current_lga].name
                       /\ wards'[w].state = lgas[current_lga].state ]_vars

\* C11 (as claimed): when the last line fed was a banner for the state B, B owns
\* no LGA yet, some other state A owns LGAs, and the step feeds a (name, numeric
\* code) row whose code is smaller than the last code under A, then no state is
\* created, B is the current state and the row's LGA is appended under B.
C11_OneTransition ==
    [][ \A r \in Rows : \A a, b \in DOMAIN states :
          ( /\ FeedsRow(r) /\ IsLevel2Record(r) /\ isdigit(Cells(r)[2])
            /\ history # <<>> /\ LastFed.kind = "line"
            /\ is_state_header(strip(LastFed.val))
            /\ Level1Named(BannerName(LastFed.val)) = {b}
            /\ CodesUnder(states[b].name) = <<>>
            /\ a # b
            /\ CodesUnder(states[a].name) # <<>>
            /\ LET seen == CodesUnder(states[a].name)
               IN  /\ isdigit(seen[Len(seen)])
                   /\ int_of(Cells(r)[2]) < int_of(seen[Len(seen)]) )
          => ( /\ states' = states
               /\ current_state' = b
               /\ lgas' = Append(lgas, [name |-> Cells(r)[1], code |-> Cells(r)[2],
                                        state |-> states[b].name])
               /\ current_lga' = Len(lgas') ) ]_vars

\* the old list is the beginning of the new one
IsPrefix(old, new) == Len(old) <= Len(new) /\ SubSeq(new, 1, Len(old)) = old

\* C12: every step leaves the entities of the three lists as they are and
\* where they are; what it adds, it adds at the end.
C12_AppendOnly ==
    [][ /\ IsPrefix(states, states')
        /\ IsPrefix(lgas, lgas')
        /\ IsPrefix(wards, wards') ]_vars

\* two LGAs of one state stand in first-seen order against their codes (02
\* before 01), a later row named the first of them again, and a ward exists
C12_Witness ==
    /\ Len(lgas) = 2 /\ lgas[1].state = lgas[2].state
    /\ isdigit(lgas[1].code) /\ isdigit(lgas[2].code)
    /\ int_of(lgas[2].code) < int_of(lgas[1].code)
    /\ \E i \in DOMAIN history :
          /\ i > 3 /\ history[i].kind = "row" /\ IsLevel2Record(history[i].val)
          /\ upper(Cells(history[i].val)[1]) = upper(lgas[1].name)
    /\ wards # <<>>

\* the states that own at least one LGA
Populated == {i \in DOMAIN states : \E l \in DOMAIN lgas : lgas[l].state = states[i].name}

\* C13 (as claimed): after extract_all has returned, total_states of
\* get_statistics is the number of states that own at least one LGA.
C13_CountsPopulated ==
    phase = "returned" => get_statistics(Self).total_states = Cardinality(Populated)

\* C14 (as claimed): whenever a call of extract_all begins, the first on the
\* extractor or a later one, the document is empty, no state and no LGA is
\* current and the dedup sets are empty.
C14_FreshCall ==
    phase = "open"
        => /\ extracted_data = [states |-> <<>>, lgas |-> <<>>, wards |-> <<>>]
           /\ current_state = 0 /\ current_lga = 0
           /\ seen_states = {} /\ seen_lgas = {} /\ seen_wards = {}

\* C15 (as claimed): a page text of one line that holds a digit, or is shorter
\* than 3 or longer than 40 characters once trimmed, creates no state and
\* leaves the current state as it is.
C15_DigitLineRejected ==
    [][ ( /\ Len(FedLines) = 1
          /\ \/ count_digit(FedLines[1]) > 0
             \/ Len(FedLines[1]) < 3
             \/ Len(FedLines[1]) > 40 )
        => ( states' = states /\ current_state' = current_state ) ]_vars

\* C16: a step that feeds text lines leaves the lgas and wards lists and their
\* dedup sets as they are; the states it had stay in place.
C16_TextTouchesLevel1Only ==
    [][ ( /\ history' # history
          /\ history'[Len(history')].kind = "line" )
        => ( /\ lgas' = lgas /\ wards' = wards
             /\ seen_lgas' = seen_lgas /\ seen_wards' = seen_wards
             /\ IsPrefix(states, states') ) ]_vars

\* a text with a line that is no banner and a banner line came after an LGA and
\* a ward existed: the banner made the second state, one LGA and one ward remain
C16_Witness ==
    /\ Len(history) >= 4
    /\ LastFed.kind = "line" /\ is_state_header(strip(LastFed.val))
    /\ history[Len(history) - 1].kind = "line"
    /\ ~is_state_header(strip(history[Len(history) - 1].val))
    /\ Len(states) = 2 /\ current_state = 2 /\ current_lga = 0
    /\ Len(lgas) = 1 /\ Len(wards) = 1
    /\ seen_lgas # {} /\ seen_wards # {}

\* every cell empty, or fewer than 2 non-empty cells after trimming
IsNoise(row) == Len(Cells(row)) < 2

\* the upper-cased text of the trimmed cells joined by blanks holds at least
\* two of the header keywords
IsTableHeader(row) ==
    LET trimmed == [i \in DOMAIN row |->
                      IF row[i] = None THEN <<>> ELSE strip(row[i])]
        text == upper(join_sp(trimmed))
    IN  Cardinality({kw \in header_keywords : Contains(text, kw)}) >= 2

\* C17: a step that feeds a noise row or a table-header row leaves the
\* document, the cursor and the dedup sets as they are and raises nothing.
C17_NoiseAndHeaderDropped ==
    [][ \A t \in NoiseTables :
          ( FeedsRow(t[1]) /\ (IsNoise(t[1]) \/ IsTableHeader(t[1])) )
          => ( UNCHANGED parser_state /\ ~raised' ) ]_vars

\* with a state and an LGA current, a header row that ends in a code, a row of
\* a blank cell and a code, and a row of empty cells were fed: still one LGA
C17_Witness ==
    /\ Len(history) = 5
    /\ history[1].kind = "line" /\ history[2] = [kind |-> "row", val |-> RowAb]
    /\ \E i, j, k \in 3..5 :
          /\ history[i].kind = "row" /\ history[i].val = RowLgaCode
          /\ history[j].kind = "row" /\ history[j].val = RowBlank
          /\ history[k].kind = "row" /\ history[k].val = RowEmpty
    /\ IsTableHeader(RowLgaCode) /\ ~IsNoise(RowLgaCode)
    /\ IsNoise(RowBlank) /\ IsNoise(RowEmpty)
    /\ Len(states) = 1 /\ Len(lgas) = 1 /\ wards = <<>> /\ current_lga = 1

\* the upper-cased first characters of the words of a name, in order: a word
\* starts at a character that is no white space and follows white space or nothing
InitialsOf(name) ==
    LET IsStart(i) == ~c_isspace(name[i]) /\ (i = 1 \/ c_isspace(name[i - 1]))
        starts == SelectSeq([i \in DOMAIN name |-> i], IsStart)
    IN  [k \in DOMAIN starts |-> c_upper(name[starts[k]])]

\* C18: the code of every state (a state is always added without a code) is the
\* initials of its name, or XX when the name has no word; NORTH EAST has the
\* code NE.  The code is thus a function of the name alone.
C18_CodeFromInitials ==
    \A i \in DOMAIN states :
        /\ states[i].code = IF InitialsOf(states[i].name) = <<>> THEN <<"X", "X">>
                            ELSE InitialsOf(states[i].name)
        /\ states[i].name = sNorthEast => states[i].code = <<"N", "E">>
        /\ states[i].name = <<>> => states[i].code = <<"X", "X">>

\* the banners NORTH EAST, STATE: alone and one with a lower-case word made
\* states with the codes NE, XX and AX
C18_Witness ==
    /\ \E i \in DOMAIN states : states[i].name = sNorthEast /\ states[i].code = <<"N", "E">>
    /\ \E i \in DOMAIN states : states[i].name = <<>> /\ states[i].code = <<"X", "X">>
    /\ \E i \in DOMAIN states : states[i].name = sLowerWord /\ states[i].code = <<"A", "X">>
    /\ \E i \in DOMAIN states : states[i].name = sNorthEastern

\* the wards of the current LGA with this name, letter case aside
Level3Named(name) ==
    {w \in DOMAIN wards :
        /\ wards[w].state = lgas[current_lga].state
        /\ wards[w].lga = lgas[current_lga].name
        /\ upper(wards[w].name) = upper(name)}

\* C19 (as claimed): a (name, code) row whose name, letter case and surrounding
\* white space aside, is that of an LGA of the current state, written
\* otherwise, creates nothing; so does a ward row whose name is, in the same
\* sense, that of a ward of the current LGA.
C19_CaseVariantCreatesNothing ==
    [][ \A t \in CaseTables :
          LET r == t[1]
              name == Cells(r)[1]
          IN  /\ ( /\ FeedsRow(r) /\ IsLevel2Record(r) /\ Len(Cells(r)) <= 3
                   /\ current_state # 0
                   /\ \E i \in Level2Named(name) : lgas[i].name # name \/ r[1] # name )
                 => extracted_data' = extracted_data
              /\ ( /\ FeedsRow(r) /\ Level3Shaped(r)
                   /\ current_state # 0 /\ current_lga # 0
                   /\ \E w \in Level3Named(name) : wards[w].name # name \/ r[1] # name )
                 => extracted_data' = extracted_data ]_vars

\* the rows and lines of a document, page after page
RECURSIVE DocumentFeed(_)
DocumentFeed(doc) ==
    IF doc = <<>> THEN <<>> ELSE PageFeed(Head(doc)) \o DocumentFeed(Tail(doc))

\* C20: every run of extract_all over a document comes to its return with no
\* exception raised, all pages done, and having read the rows and lines of
\* the pages once each, in the order of the document.
C20_ReachesEnd ==
    <>( /\ phase = "returned"
        /\ ~raised
        /\ page_num = Len(pages)
        /\ history = DocumentFeed(pages) )

\* a document that begins with the malformed page (an empty table, an empty
\* row, None cells, a text of white space) was run to its return, and the
\* pages after the malformed one gave a state and an LGA
C20_Witness ==
    /\ phase = "returned" /\ ~raised
    /\ Len(pages) = MaxPages /\ page_num = MaxPages
    /\ pages[1] = PageMalformed
    /\ states # <<>> /\ lgas # <<>>
    /\ history = DocumentFeed(pages)

\* the rows of the lgas table with this name and code under this state name
SavedLgas(name, code, state) ==
    {i \in DOMAIN db.lgas :
        /\ db.lgas[i].name = name /\ db.lgas[i].code = code
        /\ db.lgas[i].state_id # 0
        /\ db.lgas[i].state_id = select_state_id(upper(strip(state)))}

\* C21 (as claimed): once save_extraction_data has returned, every LGA of the
\* extracted data whose state is a row of the states table is a row of the lgas
\* table, and every ward of such an LGA is a row of the wards table under it.
C21_SavedToDatabase ==
    phase = "saved"
        => /\ \A l \in DOMAIN lgas :
                select_state_id(upper(strip(lgas[l].state))) # 0
                    => SavedLgas(lgas[l].name, lgas[l].code, lgas[l].state) # {}
           /\ \A w \in DOMAIN wards :
                select_state_id(upper(strip(wards[w].state))) # 0
                    => \E l \in DOMAIN lgas :
                          /\ lgas[l].name = wards[w].lga /\ lgas[l].state = wards[w].state
                          /\ \E i \in SavedLgas(lgas[l].name, lgas[l].code, lgas[l].state) :
                               \E j \in DOMAIN db.wards :
                                  /\ db.wards[j].lga_id = db.lgas[i].id
                                  /\ db.wards[j].name = wards[w].name
                                  /\ db.wards[j].code = wards[w].code

\* C22 (as claimed): an LGA appended by a step that feeds one table row has the
\* row's first non-empty cell for its name and the second for its code.
C22_NameAndCodeCells ==
    [][ \A t \in ShapeTables :
          FeedsRow(t[1])
            => \A i \in DOMAIN lgas' :
                  i > Len(lgas) => /\ lgas'[i].name = Cells(t[1])[1]
                                   /\ lgas'[i].code = Cells(t[1])[2] ]_vars

\* C23 (as claimed): a (name, code) row handled as an LGA record is rejected as
\* already seen only if the current state owns an LGA of that name, letter case
\* aside; with no such LGA the row appends one, also when names hold a '_'.
C23_KeysInjective ==
    [][ \A t \in KeyTables :
          LET r == t[1]
              c == Cells(r)
          IN  ( /\ FeedsRow(r)
                /\ Len(c) = 2 /\ IsLevel2Record(r)
                /\ current_state # 0
                /\ (current_lga = 0 \/ is_new_lga(Self, c[1], c[2]))
                /\ Level2Named(c[1]) = {} )
              => Len(lgas') = Len(lgas) + 1 ]_vars

\* the current LGA, when set, belongs to the current state
CursorConsistent(state_ref, lga_ref, doc) ==
    lga_ref # 0 => /\ state_ref # 0
                   /\ doc.lgas[lga_ref].state = doc.states[state_ref].name

\* C24: in every reachable state a current LGA implies a current state that
\* owns it, and every step that changes the current state leaves no LGA current.
C24_CursorInvariant ==
    [][ /\ CursorConsistent(current_state, current_lga, extracted_data)
        /\ CursorConsistent(current_state', current_lga', extracted_data')
        /\ (current_state' # current_state => current_lga' = 0) ]_vars

\* the second state is current and owns the current LGA, after an LGA of the
\* same name under the first state was current
C24_Witness ==
    /\ Len(states) >= 2 /\ current_state = 2 /\ current_lga # 0
    /\ lgas[current_lga].state = states[2].name
    /\ \E l \in DOMAIN lgas :
          /\ lgas[l].state = states[1].name
          /\ upper(lgas[l].name) = upper(lgas[current_lga].name)

\* C25: the LGAs and wards a page appends all belong to the state that was
\* current when the page began, whatever banner the text of the page holds, and
\* a page that begins with no current state appends none; so a document of one
\* page yields no LGA and no ward.
C25_TablesBeforeText ==
    [][ page_num' = page_num + 1
          => /\ \A l \in DOMAIN lgas' :
                   l > Len(lgas) => /\ current_state # 0
                                    /\ lgas'[l].state = states[current_state].name
             /\ \A w \in DOMAIN wards' :
                   w > Len(wards) => /\ current_state # 0
                                     /\ wards'[w].state = states[current_state].name
             /\ (Len(pages) = 1 => lgas' = <<>> /\ wards' = <<>>) ]_vars

\* the second page held a table and the banner of a new state: its rows went to
\* the state of the first page, and the new state, now current, owns nothing
C25_Witness ==
    /\ phase = "page_done" /\ page_num = 2
    /\ pages[1] = PageBanner /\ pages[2] = PageFull
    /\ Len(states) = 2 /\ current_state = 2
    /\ \E l \in DOMAIN lgas : lgas[l].state = states[1].name
    /\ \E w \in DOMAIN wards : wards[w].state = states[1].name
    /\ \A l \in DOMAIN lgas : lgas[l].state # states[2].name

\* what C26 says of a step that feeds the row r, a (name, plausible code) row
\* of 2 non-empty cells, while an LGA is current
TwoCellRowWithLevel2(r) ==
    LET c == Cells(r)
        cur == lgas[current_lga]
        same == upper(c[1]) = upper(cur.name) /\ c[2] = cur.code
        state == states[current_state].name
    IN  ( /\ FeedsRow(r)
          /\ Len(c) = 2 /\ IsLevel2Record(r) /\ ~IsTableHeader(r)
          /\ current_state # 0 /\ current_lga # 0 )
        => /\ wards' # wards => same
           /\ ~same =>
                /\ wards' = wards
                /\ current_lga' # 0
                /\ upper(lgas'[current_lga'].name) = upper(c[1])
                /\ lgas'[current_lga'].state = state
                /\ \/ lgas' = lgas
                   \/ /\ lgas' = Append(lgas, [name |-> c[1], code |-> c[2],
                                               state |-> state])
                      /\ current_lga' = Len(lgas')

\* C26 (as claimed): a row of 2 non-empty cells (name, plausible code) fed while
\* an LGA is current adds a ward only if its name, letter case aside, and its
\* code are those of the current LGA; every other such row leaves the wards
\* alone and makes an LGA of its name under the current state current, one it
\* appends or one that was there.
C26_TwoCellRowWithLevel2 ==
    [][ \A t \in KeyTables : TwoCellRowWithLevel2(t[1]) ]_vars

\* C27 (as claimed): every state of the document has a non-empty name, and no
\* LGA belongs to a state of empty name.
C27_Level1Named ==
    /\ \A i \in DOMAIN states : states[i].name # <<>>
    /\ \A l \in DOMAIN lgas : lgas[l].state # <<>>

\* a plausible code: at most 5 characters, all digits, or letters and digits
\* with at least one digit
PlausibleCode(code) ==
    /\ Len(code) >= 1 /\ Len(code) <= 5
    /\ \A i \in DOMAIN code : c_isalnum(code[i])
    /\ \E i \in DOMAIN code : c_isdigit(code[i])

\* C28 (as claimed): every ward of the document has a plausible code.
C28_Level3CodePlausible ==
    \A w \in DOMAIN wards : PlausibleCode(wards[w].code)

\* the rows fed so far whose first cell is this name and whose first or second
\* cell is this code
RowsGiving(name, code) ==
    {h \in DOMAIN history :
        /\ history[h].kind = "row"
        /\ LET c == Cells(history[h].val)
           IN  Len(c) >= 2 /\ c[1] = name /\ code \in {c[1], c[2]}}

\* C29: every LGA of the document has a plausible code, and the code is a cell
\* of a row that was fed and names the LGA; none has a code made from its name.
C29_Level2CodePlausible ==
    \A l \in DOMAIN lgas :
        /\ PlausibleCode(lgas[l].code)
        /\ RowsGiving(lgas[l].name, lgas[l].code) # {}

\* an LGA has the code of a cell that carried a trailing blank, another the
\* code of a row of five cells
C29_Witness ==
    /\ \E l \in DOMAIN lgas : lgas[l].name = sCd /\ lgas[l].code = s02
    /\ \E l \in DOMAIN lgas : lgas[l].name = saB /\ lgas[l].code = s01

\* C30 (as claimed): once save_extraction_data has returned or raised, the call
\* has a row in extraction_logs and the row reads 'success' with the counts of
\* the call (it returned) or 'failed' with the error (it raised); until then the
\* row reads 'in_progress'.
C30_LogRowSettled ==
    /\ phase \in {"log_written", "data_written"}
          => db.extraction_logs[call.log_id].status = "in_progress"
    /\ phase = "saved"
          => /\ call.log_id \in DOMAIN db.extraction_logs
             /\ db.extraction_logs[call.log_id] =
                   log_success(log_in_progress, call.lgas_created, call.wards_created)
    /\ phase = "save_raised"
          => /\ call.log_id \in DOMAIN db.extraction_logs
             /\ db.extraction_logs[call.log_id] = log_failed(log_in_progress, call.error)

\* C33: the dedup sets mirror the document.  seen_states is the set of the
\* upper-cased state names, seen_lgas the set of the keys of the LGAs,
\* seen_wards the set of the keys of the wards, and each set is as large as
\* its list.
C33_SetsMirrorDocument ==
    /\ seen_states = {upper(states[i].name) : i \in DOMAIN states}
    /\ seen_lgas = {lga_key(lgas[l].state, lgas[l].name) : l \in DOMAIN lgas}
    /\ seen_wards = {ward_key(wards[w].state, wards[w].lga, wards[w].name) :
                        w \in DOMAIN wards}
    /\ Cardinality(seen_states) = Len(states)
    /\ Cardinality(seen_lgas) = Len(lgas)
    /\ Cardinality(seen_wards) = Len(wards)

\* two states, two LGAs and a ward are in the document, and a row that gave an
\* LGA and a ward was fed a second time
C33_Witness ==
    /\ Len(states) >= 2 /\ Len(lgas) >= 2 /\ Len(wards) >= 1
    /\ \E i, j \in DOMAIN history :
          /\ i < j
          /\ history[i].kind = "row" /\ history[j].kind = "row"
          /\ history[i].val = RowAbWx /\ history[j].val = RowAbWx

\* C31 (as claimed): once extract_and_save is over, the temporary file it
\* created is gone, whether the call gave a success or caught an exception of
\* the extraction, of the JSON export or of the database.
C31_TempFileRemoved ==
    phase \in {"done", "responded"}
        => /\ service.temp_file # "exists"
           /\ service.temp_path # "None" => service.temp_file = "removed"

\* C31 (corrected): once extract_and_save is over, the temporary file it
\* created is gone on every path (success, extraction error, JSON export
\* error, database error) unless os.remove itself raised; then the file is
\* still there and the call has logged a warning.  A call that created no
\* file leaves none.
C31_TempFileRemovedOrWarned ==
    phase \in {"done", "responded"}
        => /\ service.warned <=> service.temp_file = "exists"
           /\ service.temp_path # "None" <=> service.temp_file # "none"

\* the call is over after save_extraction_data raised on a failing statement,
\* and the temporary file is removed
C31_Witness ==
    /\ phase = "done"
    /\ call.error = "OperationalError" /\ ~service.result.success
    /\ service.temp_path # "None" /\ service.temp_file = "removed"
    /\ ~service.warned

\* extraction and every requested save went through without an exception
Completed ==
    /\ page_num = Len(pages) /\ ~raised
    /\ service.error = "" /\ call.error = ""
    /\ service.save_to_json => service.json_file = "written"
    /\ service.save_to_db
          => /\ call.log_id \in DOMAIN db.extraction_logs
             /\ db.extraction_logs[call.log_id].status = "success"
             /\ service.result.database_log_id = call.log_id

\* C32: no exception leaves extract_and_save or process_uploaded_file.  A call
\* that is over has returned a result; the result is a success only if the
\* extraction and every requested save completed without exception, and a
\* failure carries an error message.  process_uploaded_file gives the status
\* 'success' for a success and the status 'error' with the error message and
\* no data for a failure.
C32_NeverRaises ==
    /\ ~service.escaped
    /\ phase \in {"done", "responded"}
          => /\ service.result.returned
             /\ service.result.success <=> Completed
             /\ ~service.result.success => service.result.error # ""
    /\ phase = "responded"
          => /\ service.response.status =
                   IF service.result.success THEN "success" ELSE "error"
             /\ service.response.status = "error"
                   => /\ service.response.data = "None"
                      /\ service.response.message = service.result.error

\* process_uploaded_file answered with the status 'error' after the JSON
\* export had failed on a written temporary file and a finished extraction
C32_Witness ==
    /\ phase = "responded"
    /\ service.error = "PermissionError"
    /\ page_num = Len(pages) /\ lgas # <<>>
    /\ service.response.status = "error" /\ service.response.data = "None"
=============================================================================
